---- MODULE Spec2Model ----
(***************************************************************************)
(* Model of the calculator's expression engine (src/src/parser): the       *)
(* lexer (lex.rs), the contextualizer and tree reducer (ast.rs) and the    *)
(* evaluator entry point eval_math (mod.rs).                               *)
(*                                                                         *)
(* Strings are sequences of one-character strings.  The top-level loops of *)
(* lex_ind, ContextualizedTokens::from and into_ast are actions, one per   *)
(* loop iteration; the same step operators are folded by the recursive     *)
(* operators that handle parenthesized groups.                             *)
(***************************************************************************)
EXTENDS Integers, Sequences, FiniteSets, TLC

\* ------------------------------------------------------------------------
\* Bounds of the model
\* ------------------------------------------------------------------------

\* Longest input drawn from the general alphabet.
MaxLen == 4

\* Largest magnitude (numerator or denominator) of an f64 the model tracks
\* exactly; larger values are carried as an untracked float.
ValueBound == 30000

\* The largest number of operands in the inputs of ChainInputs.
MaxOperands == 3

\* The largest length of the inputs of GroupInputs.
MaxGroupLen == 6

\* The longest input over the characters of numbers.
MaxNumLen == 5

\* The longest text the entry of the window is let to hold.
MaxText == 3

\* ------------------------------------------------------------------------
\* Results
\* ------------------------------------------------------------------------

Ok(v) == [ok |-> TRUE, val |-> v]

Err(e) == [ok |-> FALSE, err |-> e]

\* ------------------------------------------------------------------------
\* Characters
\* ------------------------------------------------------------------------

Digits == {"0", "1", "2", "3", "4", "5", "6", "7", "8", "9"}

Lowercase ==
  {"a", "b", "c", "d", "e", "f", "g", "h", "i", "j", "k", "l", "m",
   "n", "o", "p", "q", "r", "s", "t", "u", "v", "w", "x", "y", "z"}

is_whitespace(c) == c = " "

is_digit(c) == c \in Digits

\* ------------------------------------------------------------------------
\* f64 values: exact rationals n/d (d > 0) within ValueBound, or the
\* untracked float (d = 0).
\* ------------------------------------------------------------------------

Untracked == [n |-> 0, d |-> 0]

\* std::f64::consts::PI and E: irrational, carried by name.
PI == [n |-> 1, d |-> 0]

E == [n |-> 2, d |-> 0]

Abs(x) == IF x < 0 THEN -x ELSE x

RECURSIVE Gcd(_, _)
Gcd(a, b) == IF b = 0 THEN a ELSE Gcd(b, a % b)

Rat(n, d) ==
  IF d = 0 \/ Abs(n) > ValueBound * ValueBound \/ Abs(d) > ValueBound * ValueBound
    THEN Untracked
    ELSE LET g == Gcd(Abs(n), Abs(d))
             nn == (IF d < 0 THEN -n ELSE n) \div g
             dd == Abs(d) \div g
         IN IF Abs(nn) > ValueBound \/ dd > ValueBound
              THEN Untracked
              ELSE [n |-> nn, d |-> dd]

IntVal(k) == [n |-> k, d |-> 1]

IsTracked(v) == v.d # 0

\* acc * b^k for naturals b >= 2, or -1 once the product passes ValueBound.
RECURSIVE PowAcc(_, _, _)
PowAcc(b, k, acc) ==
  IF k = 0 THEN acc
  ELSE IF acc * b > ValueBound THEN 0 - 1
  ELSE PowAcc(b, k - 1, acc * b)

\* b^k for naturals b and k, or -1 beyond ValueBound.
PowNat(b, k) ==
  IF k = 0 \/ b = 1 THEN 1
  ELSE IF b = 0 THEN 0
  ELSE PowAcc(b, k, 1)

\* ------------------------------------------------------------------------
\* Operators (lex.rs)
\* ------------------------------------------------------------------------

\* OperatorPrecedence::VALUES, lowest first.
OperatorPrecedence_VALUES == <<"PlusMinus", "MultDiv", "Exp">>

\* precedence with the tiers of the exponent and of + and - exchanged.
precedence_exchanged(op) ==
  IF op = "Exp" THEN "PlusMinus"
  ELSE IF op \in {"Mult", "Div"} THEN "MultDiv"
  ELSE "Exp"

precedence(op) ==
  IF op = "Exp" THEN "Exp"
  ELSE IF op \in {"Mult", "Div"} THEN "MultDiv"
  ELSE "PlusMinus"

is_operator(c) == c \in {"^", "*", "/", "+", "-"}

from_char(c) ==
  IF c = "^" THEN "Exp"
  ELSE IF c = "*" THEN "Mult"
  ELSE IF c = "/" THEN "Div"
  ELSE IF c = "+" THEN "Plus"
  ELSE "Minus"

get_char(op) ==
  IF op = "Exp" THEN "^"
  ELSE IF op = "Mult" THEN "*"
  ELSE IF op = "Div" THEN "/"
  ELSE IF op = "Plus" THEN "+"
  ELSE "-"

\* ------------------------------------------------------------------------
\* Tokens (lex.rs)
\* ------------------------------------------------------------------------

TNumber(v) == [type |-> "Number", value |-> v]

TOp(op) == [type |-> "Op", op |-> op]

TVar(name) == [type |-> "Var", name |-> name]

TParentheses(toks) == [type |-> "Parentheses", tokens |-> toks]

TNegation == [type |-> "Negation"]

is_op(t) == t.type = "Op"

is_neg(t) == t.type = "Negation"

is_num(t) == t.type = "Number"

\* ------------------------------------------------------------------------
\* Lexer errors (lex.rs)
\* ------------------------------------------------------------------------

UnexpectedEOF ==
  [from |-> "LexError", kind |-> "UnexpectedEOF", character |-> "", position |-> 0]

EmptyParentheses ==
  [from |-> "LexError", kind |-> "EmptyParentheses", character |-> "", position |-> 0]

UnexpectedCharacter(c, p) ==
  [from |-> "LexError", kind |-> "UnexpectedCharacter", character |-> c, position |-> p]

is_eof(e) == e.kind = "UnexpectedEOF"

\* From<LexError> for Cow<str>: the message and its format arguments.
LexErrorMessage(e) ==
  IF e.kind = "UnexpectedEOF" THEN <<"Incomplete expression">>
  ELSE IF e.kind = "UnexpectedCharacter"
    THEN <<"Unexpected character '{}' at index {}", e.character, e.position>>
  ELSE <<"Empty parentheses">>

\* ------------------------------------------------------------------------
\* Token builders (lex.rs)
\* ------------------------------------------------------------------------

NoBuilder == [kind |-> "None"]

OperatorBuilder_new == [kind |-> "Operator", inner |-> "None"]

NegationBuilder_new == [kind |-> "Negation", complete |-> FALSE]

NumberBuilder_new == [kind |-> "Number", parts |-> <<<<>>, <<>>, <<>>>>, ind |-> 0]

ParenthesesBuilder_new(start) ==
  [kind |-> "Parentheses", inner |-> <<>>, level |-> 0, complete |-> FALSE,
   start |-> start]

VariableBuilder_new == [kind |-> "Variable", inner |-> <<>>]

\* The segment the number builder is writing to.
CurPart(b) == b.parts[b.ind + 1]

DigitCount(s) == Cardinality({i \in 1..Len(s) : is_digit(s[i])})

NumberAccepts(b, c) ==
  \/ is_digit(c)
  \/ c = "-" /\ b.ind = 2 /\ CurPart(b) = <<>>
  \/ c = "+" /\ b.ind = 2 /\ CurPart(b) = <<>>
  \/ c = "." /\ b.ind = 0 /\ CurPart(b) # <<>>
  \/ c = "E" /\ b.ind < 2 /\ DigitCount(CurPart(b)) > 0

can_insert(b, c) ==
  IF b.kind = "Operator" THEN b.inner = "None" /\ is_operator(c)
  ELSE IF b.kind = "Negation" THEN ~b.complete /\ c = "-"
  ELSE IF b.kind = "Number" THEN NumberAccepts(b, c)
  ELSE IF b.kind = "Parentheses" THEN ~b.complete /\ (c # ")" \/ b.level > 0)
  ELSE c \in Lowercase \/ c = "_"

NumberPush(b, c) ==
  IF is_digit(c) \/ (c \in {"-", "+"} /\ b.ind = 2 /\ CurPart(b) = <<>>)
    THEN Ok([b EXCEPT !.parts[b.ind + 1] = Append(@, c)])
  ELSE IF c = "." /\ b.ind = 0 /\ CurPart(b) # <<>>
    THEN Ok([b EXCEPT !.ind = b.ind + 1])
  ELSE IF c = "E" /\ b.ind < 2 /\ DigitCount(CurPart(b)) > 0
    THEN Ok([b EXCEPT !.ind = 2])
  ELSE Err("push")

\* ParenthesesBuilder::push that closes the group at the first ')'.
ParenthesesPush_first(b, c) ==
  IF c = ")" /\ ~b.complete THEN Ok([b EXCEPT !.complete = TRUE, !.level = 0])
  ELSE IF ~b.complete
    THEN Ok([b EXCEPT !.inner = IF b.level > 0 THEN Append(@, c) ELSE @, !.level = 1])
    ELSE Err("push")

ParenthesesPush(b, c) ==
  IF c \in {"(", ")"} /\ ~b.complete
    THEN IF c = ")" /\ b.level = 0
           THEN Err("push")
           ELSE LET l1 == IF c = ")" THEN b.level - 1 ELSE b.level
                    in1 == IF l1 > 0 THEN Append(b.inner, c) ELSE b.inner
                    l2 == IF c = "(" THEN l1 + 1 ELSE l1
                IN Ok([b EXCEPT !.level = l2, !.inner = in1, !.complete = (l2 = 0)])
  ELSE IF ~b.complete
    THEN Ok([b EXCEPT !.inner = Append(@, c)])
  ELSE Err("push")

push(b, c) ==
  IF b.kind = "Operator"
    THEN IF is_operator(c) /\ b.inner = "None"
           THEN Ok([b EXCEPT !.inner = from_char(c)])
           ELSE Err("push")
  ELSE IF b.kind = "Negation"
    THEN IF can_insert(b, c) THEN Ok([b EXCEPT !.complete = TRUE]) ELSE Err("push")
  ELSE IF b.kind = "Number" THEN NumberPush(b, c)
  ELSE IF b.kind = "Parentheses" THEN ParenthesesPush(b, c)
  ELSE IF c \in Lowercase \/ c = "_"
    THEN Ok([b EXCEPT !.inner = Append(@, c)])
    ELSE Err("push")

\* ------------------------------------------------------------------------
\* Number literals: str::parse::<f64> on the text the builder assembles
\* ------------------------------------------------------------------------

DigitVal(c) ==
  IF c = "0" THEN 0 ELSE IF c = "1" THEN 1 ELSE IF c = "2" THEN 2
  ELSE IF c = "3" THEN 3 ELSE IF c = "4" THEN 4 ELSE IF c = "5" THEN 5
  ELSE IF c = "6" THEN 6 ELSE IF c = "7" THEN 7 ELSE IF c = "8" THEN 8
  ELSE 9

\* The value of a digit string, or -1 beyond ValueBound.
RECURSIVE DigitsVal(_)
DigitsVal(s) ==
  IF s = <<>> THEN 0
  ELSE LET hi == DigitsVal(SubSeq(s, 1, Len(s) - 1))
       IN IF hi = 0 - 1 \/ hi * 10 + 9 > ValueBound
            THEN 0 - 1
            ELSE hi * 10 + DigitVal(s[Len(s)])

\* parse::<f64> of "<int>[.<frac>][E[sign]<exp>]": an error when the exponent
\* holds a sign and no digit.
ParseF64(parts) ==
  LET int == parts[1]
      frac == parts[2]
      exp == parts[3]
      signed == exp # <<>> /\ exp[1] \in {"-", "+"}
      expDigits == IF signed THEN Tail(exp) ELSE exp
  IN IF exp # <<>> /\ expDigits = <<>>
       THEN Err(UnexpectedEOF)
       ELSE LET m == DigitsVal(int \o frac)
                scale == PowNat(10, Len(frac))
                e == DigitsVal(expDigits)
                p == IF e = 0 - 1 THEN 0 - 1 ELSE PowNat(10, e)
            IN IF m = 0 - 1 \/ scale = 0 - 1 \/ p = 0 - 1
                 THEN Ok(Untracked)
               ELSE IF signed /\ exp[1] = "-"
                 THEN Ok(Rat(m, scale * p))
                 ELSE Ok(Rat(m * p, scale))

\* into_token without the test for an empty current segment.
NumberIntoToken_unchecked(b) ==
  LET v == ParseF64(b.parts)
  IN IF v.ok THEN Ok(TNumber(v.val)) ELSE v

NumberIntoToken(b) ==
  IF \E index \in 0..2 : b.parts[index + 1] = <<>> /\ b.ind = index
    THEN Err(UnexpectedEOF)
    ELSE LET v == ParseF64(b.parts)
         IN IF v.ok THEN Ok(TNumber(v.val)) ELSE v

\* ------------------------------------------------------------------------
\* lex_ind (lex.rs)
\* ------------------------------------------------------------------------

\* tokens.iter().rev().skip_while(is_neg).next().filter(is_op).is_some()
RECURSIVE last_is_op(_)
last_is_op(tokens) ==
  IF tokens = <<>> THEN FALSE
  ELSE IF is_neg(tokens[Len(tokens)])
    THEN last_is_op(SubSeq(tokens, 1, Len(tokens) - 1))
    ELSE is_op(tokens[Len(tokens)])

last_is_num(tokens) == tokens # <<>> /\ is_num(tokens[Len(tokens)])

\* The builder a character starts when none is pending.
SelectBuilder(c, tokens, ind) ==
  IF is_whitespace(c) THEN Ok(NoBuilder)
  ELSE IF c = "-" /\ (last_is_op(tokens) \/ tokens = <<>>) /\ ~last_is_num(tokens)
    THEN Ok(NegationBuilder_new)
  ELSE IF is_digit(c) /\ ~last_is_num(tokens) THEN Ok(NumberBuilder_new)
  ELSE IF is_operator(c) /\ ~last_is_op(tokens) THEN Ok(OperatorBuilder_new)
  ELSE IF c = "(" THEN Ok(ParenthesesBuilder_new(ind))
  ELSE IF c \in Lowercase \/ c = "_" THEN Ok(VariableBuilder_new)
  ELSE Err(UnexpectedCharacter(c, ind))

\* A final check that accepts any tokens.
LexFilter_any(tokens) == Ok(tokens)

\* The final check of lex_ind on the tokens the loop collected.
LexFilter(tokens) ==
  IF tokens # <<>> /\ (is_op(tokens[Len(tokens)]) \/ is_neg(tokens[Len(tokens)]))
    THEN Err(UnexpectedEOF)
    ELSE Ok(tokens)

RECURSIVE lex_ind(_, _), LexRange(_, _, _, _, _), into_token(_), LexIter(_, _, _, _, _),
          ParenthesesIntoToken(_)

\* ParenthesesBuilder::into_token without the check for an empty group.
ParenthesesIntoToken_unchecked(b) ==
  IF ~b.complete THEN Err(UnexpectedEOF)
  ELSE LET r == lex_ind(b.inner, b.start)
       IN IF r.ok THEN Ok(TParentheses(r.val)) ELSE r

\* ParenthesesBuilder::into_token
ParenthesesIntoToken(b) ==
  IF b.inner = <<>> THEN Err(EmptyParentheses)
  ELSE IF ~b.complete THEN Err(UnexpectedEOF)
  ELSE LET r == lex_ind(b.inner, b.start)
       IN IF r.ok THEN Ok(TParentheses(r.val))
          ELSE IF is_eof(r.err)
            THEN Err(UnexpectedCharacter(")", Len(b.inner) + b.start + 1))
            ELSE r

\* into_token of the builder b.
into_token(b) ==
  CASE b.kind = "Parentheses" -> ParenthesesIntoToken(b)
    [] b.kind = "Operator" ->
         IF b.inner = "None" THEN Err(UnexpectedEOF) ELSE Ok(TOp(b.inner))
    [] b.kind = "Negation" ->
         IF b.complete THEN Ok(TNegation) ELSE Err(UnexpectedEOF)
    [] b.kind = "Number" -> NumberIntoToken(b)
    [] b.kind = "Variable" ->
         IF b.inner = <<>> THEN Err(UnexpectedEOF) ELSE Ok(TVar(b.inner))

\* One iteration of the while loop of lex_ind on character s[i], whose
\* position counter is ind: the loop state after it, or the error returned.
LexIter(s, i, ind, tokens, pending_num) ==
  LET c == s[i]
      sel == IF pending_num.kind = "None"
               THEN SelectBuilder(c, tokens, ind)
               ELSE Ok(pending_num)
  IN IF ~sel.ok THEN sel
     ELSE IF sel.val.kind = "None"
       THEN Ok([tokens |-> tokens, pending_num |-> NoBuilder])
     ELSE LET pushed == push(sel.val, c)
          IN IF ~pushed.ok THEN Err(UnexpectedCharacter(c, ind))
             ELSE IF i < Len(s) /\ can_insert(pushed.val, s[i + 1])
               THEN Ok([tokens |-> tokens, pending_num |-> pushed.val])
             ELSE LET tok == into_token(pushed.val)
                  IN IF tok.ok
                       THEN Ok([tokens |-> Append(tokens, tok.val),
                                pending_num |-> NoBuilder])
                     ELSE IF i < Len(s) /\ is_eof(tok.err)
                       THEN Err(UnexpectedCharacter(s[i + 1], ind + 1))
                       ELSE tok

\* Iterations lo..hi of the while loop of lex_ind(s, start), in order, from
\* the loop state `state`: the loop state after them, or the error returned.
\* (The range is walked in halves, which keeps the evaluation shallow.)
LexRange(s, start, lo, hi, state) ==
  IF lo > hi THEN Ok(state)
  ELSE IF lo = hi
    THEN LexIter(s, lo, start + lo - 1, state.tokens, state.pending_num)
  ELSE LET mid == (lo + hi) \div 2
           r == LexRange(s, start, lo, mid, state)
       IN IF r.ok THEN LexRange(s, start, mid + 1, hi, r.val) ELSE r

lex_ind(s, ind) ==
  LET r == LexRange(s, ind, 1, Len(s), [tokens |-> <<>>, pending_num |-> NoBuilder])
  IN IF r.ok THEN LexFilter(r.val.tokens) ELSE r

lex(s) == lex_ind(s, 0)

\* ------------------------------------------------------------------------
\* f64 arithmetic on the tracked values (Operator::apply, unary minus)
\* ------------------------------------------------------------------------

Neg(v) == IF IsTracked(v) THEN [n |-> 0 - v.n, d |-> v.d] ELSE Untracked

\* f64::powf for an integer exponent; any other exponent is not tracked.
Powf(l, r) ==
  IF r.d # 1 THEN Untracked
  ELSE IF r.n >= 0
    THEN LET pn == PowNat(Abs(l.n), r.n)
             pd == PowNat(l.d, r.n)
             sign == IF l.n < 0 /\ r.n % 2 = 1 THEN 0 - 1 ELSE 1
         IN IF pn = 0 - 1 \/ pd = 0 - 1 THEN Untracked ELSE Rat(sign * pn, pd)
  ELSE LET pn == PowNat(Abs(l.n), 0 - r.n)
           pd == PowNat(l.d, 0 - r.n)
           sign == IF l.n < 0 /\ (0 - r.n) % 2 = 1 THEN 0 - 1 ELSE 1
       IN IF pn = 0 - 1 \/ pd = 0 - 1 \/ pn = 0 THEN Untracked ELSE Rat(sign * pd, pn)

apply(op, left, right) ==
  IF ~IsTracked(left) \/ ~IsTracked(right) THEN Untracked
  ELSE IF op = "Exp" THEN Powf(left, right)
  ELSE IF op = "Mult" THEN Rat(left.n * right.n, left.d * right.d)
  ELSE IF op = "Div"
    THEN IF right.n = 0 THEN Untracked
         ELSE Rat(left.n * right.d, left.d * right.n)
  ELSE IF op = "Plus" THEN Rat(left.n * right.d + right.n * left.d, left.d * right.d)
  ELSE Rat(left.n * right.d - right.n * left.d, left.d * right.d)

\* ------------------------------------------------------------------------
\* The default environment (mod.rs)
\* ------------------------------------------------------------------------

Str_pi == <<"p", "i">>

Str_e == <<"e">>

ConstantNames == {Str_pi, Str_e}

FunctionNames ==
  {<<"s", "i", "n">>, <<"c", "o", "s">>, <<"t", "a", "n">>,
   <<"a", "s", "i", "n">>, <<"a", "c", "o", "s">>, <<"a", "t", "a", "n">>,
   <<"c", "e", "i", "l">>, <<"f", "l", "o", "o", "r">>,
   <<"r", "o", "u", "n", "d">>, <<"l", "n">>, <<"l", "o", "g">>,
   <<"a", "b", "s">>, <<"s", "q", "r", "t">>}

\* DEFAULT_VARS.get(name): the binding, or None.
DEFAULT_VARS(name) ==
  IF name = Str_pi THEN [kind |-> "Constant", value |-> PI]
  ELSE IF name = Str_e THEN [kind |-> "Constant", value |-> E]
  ELSE IF name \in FunctionNames THEN [kind |-> "Function", value |-> Untracked]
  ELSE [kind |-> "None", value |-> Untracked]

Floor(v) == IntVal(v.n \div v.d)

Ceil(v) == IntVal(0 - ((0 - v.n) \div v.d))

\* f64::round: half away from zero.
Round(v) ==
  IF v.n >= 0 THEN IntVal((2 * v.n + v.d) \div (2 * v.d))
  ELSE IntVal(0 - ((2 * (0 - v.n) + v.d) \div (2 * v.d)))

IsSquare(k) == \E r \in 0..200 : r * r = k

SqrtNat(k) == CHOOSE r \in 0..200 : r * r = k

Sqrt(v) ==
  IF v.n >= 0 /\ IsSquare(v.n) /\ IsSquare(v.d)
    THEN Rat(SqrtNat(v.n), SqrtNat(v.d))
    ELSE Untracked

\* The function bound to `name` applied to `x` in angle mode `mode`.  The
\* rounding functions, abs and sqrt of a square are exact; the
\* transcendental functions are tracked at their exact zeros only, where
\* the degree/radian conversion leaves the value unchanged.
CallFunction(name, x, mode) ==
  IF ~IsTracked(x) THEN Untracked
  ELSE IF name = <<"a", "b", "s">> THEN [n |-> Abs(x.n), d |-> x.d]
  ELSE IF name = <<"f", "l", "o", "o", "r">> THEN Floor(x)
  ELSE IF name = <<"c", "e", "i", "l">> THEN Ceil(x)
  ELSE IF name = <<"r", "o", "u", "n", "d">> THEN Round(x)
  ELSE IF name = <<"s", "q", "r", "t">> THEN Sqrt(x)
  ELSE IF name \in {<<"s", "i", "n">>, <<"t", "a", "n">>, <<"a", "s", "i", "n">>,
                    <<"a", "t", "a", "n">>} /\ x.n = 0
    THEN IntVal(0)
  ELSE IF name = <<"c", "o", "s">> /\ x.n = 0 THEN IntVal(1)
  ELSE IF name \in {<<"l", "n">>, <<"l", "o", "g">>, <<"a", "c", "o", "s">>}
          /\ x.n = 1 /\ x.d = 1
    THEN IntVal(0)
  ELSE Untracked

\* ------------------------------------------------------------------------
\* Expressions (ast.rs)
\* ------------------------------------------------------------------------

Binary(op, left, right) ==
  [type |-> "Binary", op |-> op, left |-> left, right |-> right]

CallExpresion(func, arg) == [type |-> "CallExpresion", func |-> func, arg |-> arg]

Number(v) == [type |-> "Number", value |-> v]

Paren(e) == [type |-> "Paren", inner |-> e]

Negation(e) == [type |-> "Negation", inner |-> e]

RECURSIVE negate(_, _)
negate(e, neg) == IF neg = 0 THEN e ELSE negate(Negation(e), neg - 1)

\* non_neg that leaves the expression as it is.
non_neg_kept(e) == <<e, 0>>

\* non_neg: the expression under its Negation layers, and their number.
RECURSIVE non_neg(_)
non_neg(e) ==
  IF e.type = "Negation"
    THEN LET r == non_neg(e.inner) IN <<r[1], r[2] + 1>>
    ELSE <<e, 0>>

\* ------------------------------------------------------------------------
\* Parse errors (ast.rs)
\* ------------------------------------------------------------------------

ParseEOF == [from |-> "ParseError", kind |-> "UnexpectedEOF", arg |-> <<>>]

UndefinedIdent(name) ==
  [from |-> "ParseError", kind |-> "UndefinedIdent", arg |-> name]

UnexpectedToken(token) ==
  [from |-> "ParseError", kind |-> "UnexpectedToken", arg |-> token]

NonFunction(name) ==
  [from |-> "ParseError", kind |-> "NonFunction", arg |-> name]

\* Token::get_descriptor
get_descriptor(t) ==
  IF t.type = "Number" THEN <<"number {}", t.value>>
  ELSE IF t.type = "Parentheses" THEN <<"parentheses expression">>
  ELSE IF t.type = "Var" THEN <<"variable {}", t.name>>
  ELSE IF t.type = "Op" THEN <<"operator {}", get_char(t.op)>>
  ELSE <<"token '-'">>

\* The messages with that of LexError::UnexpectedEOF for UnexpectedEOF.
ParseErrorMessage_incomplete(e) ==
  IF e.kind = "UnexpectedEOF" THEN LexErrorMessage(UnexpectedEOF)
  ELSE IF e.kind = "UnexpectedToken" THEN <<"Unexpected {}", get_descriptor(e.arg)>>
  ELSE IF e.kind = "UndefinedIdent" THEN <<"Undefined variable \"{}\"", e.arg>>
  ELSE <<"\"{}\" is not a function", e.arg>>

\* From<ParseError> for Cow<str>
ParseErrorMessage(e) ==
  IF e.kind = "UnexpectedEOF" THEN <<"Unexpected end of file">>
  ELSE IF e.kind = "UnexpectedToken" THEN <<"Unexpected {}", get_descriptor(e.arg)>>
  ELSE IF e.kind = "UndefinedIdent" THEN <<"Undefined variable \"{}\"", e.arg>>
  ELSE <<"\"{}\" is not a function", e.arg>>

\* ------------------------------------------------------------------------
\* Tree reducer (ast.rs)
\* ------------------------------------------------------------------------

RemoveAt(s, k) == SubSeq(s, 1, k - 1) \o SubSeq(s, k + 1, Len(s))

InsertAt(s, k, x) == SubSeq(s, 1, k - 1) \o <<x>> \o SubSeq(s, k, Len(s))

\* reduce_at without the removal of the right operand.
reduce_at_keep_right(ct, ind, is_exp) ==
  IF ind + 1 < Len(ct.expressions) /\ ind < Len(ct.operators)
    THEN LET op == ct.operators[ind + 1]
             left == ct.expressions[ind + 1]
             right == ct.expressions[ind + 2]
             rest == RemoveAt(ct.expressions, ind + 1)
             expr == IF is_exp
                       THEN LET nn == non_neg(left)
                            IN negate(Binary(op, nn[1], right), nn[2])
                       ELSE Binary(op, left, right)
         IN [expressions |-> InsertAt(rest, ind + 1, expr),
             operators |-> RemoveAt(ct.operators, ind + 1)]
    ELSE ct

\* reduce_at on the pair ct = [expressions, operators]; ind is 0-based.
reduce_at(ct, ind, is_exp) ==
  IF ind + 1 < Len(ct.expressions) /\ ind < Len(ct.operators)
    THEN LET op == ct.operators[ind + 1]
             left == ct.expressions[ind + 1]
             right == ct.expressions[ind + 2]
             rest == RemoveAt(RemoveAt(ct.expressions, ind + 1), ind + 1)
             expr == IF is_exp
                       THEN LET nn == non_neg(left)
                            IN negate(Binary(op, nn[1], right), nn[2])
                       ELSE Binary(op, left, right)
         IN [expressions |-> InsertAt(rest, ind + 1, expr),
             operators |-> RemoveAt(ct.operators, ind + 1)]
    ELSE ct

\* The positions into_ast collects for one tier: the 0-based indices of the
\* tier's operators, the k-th (from 0) lowered by k.
RECURSIVE InstancesFrom(_, _, _, _)
InstancesFrom(operators, prec, i, found) ==
  IF i >= Len(operators) THEN <<>>
  ELSE IF precedence(operators[i + 1]) = prec
    THEN (IF i >= found THEN <<i - found>> ELSE <<>>)
         \o InstancesFrom(operators, prec, i + 1, found + 1)
    ELSE InstancesFrom(operators, prec, i + 1, found)

\* The positions of the tier's operators as they stand before the pass.
Instances_uncorrected(operators, prec) ==
  SelectSeq([i \in 1..Len(operators) |-> i - 1],
            LAMBDA i : precedence(operators[i + 1]) = prec)

Instances(operators, prec) == InstancesFrom(operators, prec, 0, 0)

RECURSIVE ReduceAll(_, _, _)
ReduceAll(ct, instances, is_exp) ==
  IF instances = <<>> THEN ct
  ELSE ReduceAll(reduce_at(ct, Head(instances), is_exp), Tail(instances), is_exp)

\* The loop of into_ast over the tiers, from VALUES[p] down to VALUES[1].
RECURSIVE ReduceTiers(_, _)
ReduceTiers(ct, p) ==
  IF p = 0 THEN ct
  ELSE LET prec == OperatorPrecedence_VALUES[p]
       IN ReduceTiers(ReduceAll(ct, Instances(ct.operators, prec), prec = "Exp"),
                      p - 1)

\* The last step of into_ast: pop, and accept only if nothing else is left.
IntoAstFinish(ct) ==
  IF Len(ct.expressions) = 1 /\ Len(ct.operators) = 0
    THEN Ok(ct.expressions[1])
    ELSE Err(ParseEOF)

into_ast(ct) ==
  IF Len(ct.expressions) # Len(ct.operators) + 1
    THEN Err(ParseEOF)
    ELSE IntoAstFinish(ReduceTiers(ct, Len(OperatorPrecedence_VALUES)))

\* ------------------------------------------------------------------------
\* Contextualizer (ast.rs)
\* ------------------------------------------------------------------------

\* The locals of ContextualizedTokens::from before the first token.  func
\* is the empty sequence for None and <<name>> for Some(name).
CtxInit ==
  [expressions |-> <<>>, operators |-> <<>>, negation_stack |-> 0,
   func |-> <<>>, last_paren |-> FALSE, last_op |-> FALSE]

\* An operand push that adds no operator.
ImplicitMult_never(st) == st.operators

\* operators after the implicit multiplication of an operand push.
ImplicitMult(st) ==
  IF Len(st.expressions) # Len(st.operators)
    THEN Append(st.operators, "Mult")
    ELSE st.operators

RECURSIVE ast_gen(_), CtxIter(_, _), CtxLoop(_, _, _), CtxParentheses(_, _)

\* The Parentheses arm that makes a group whatever func holds.
CtxParentheses_group(st, token) ==
  LET sub == ast_gen(token.tokens)
  IN IF ~sub.ok THEN sub
     ELSE Ok([st EXCEPT
                !.operators = ImplicitMult(st),
                !.expressions = Append(@, Paren(negate(sub.val, st.negation_stack))),
                !.func = <<>>,
                !.negation_stack = 0,
                !.last_op = FALSE,
                !.last_paren = TRUE])

\* The Parentheses arm of the match in ContextualizedTokens::from.
CtxParentheses(st, token) ==
  LET sub == ast_gen(token.tokens)
      expr == IF st.func # <<>>
                THEN negate(CallExpresion(st.func[1], sub.val), st.negation_stack)
                ELSE Paren(negate(sub.val, st.negation_stack))
  IN IF ~sub.ok THEN sub
     ELSE Ok([st EXCEPT
                !.operators = ImplicitMult(st),
                !.expressions = Append(@, expr),
                !.func = <<>>,
                !.negation_stack = 0,
                !.last_op = FALSE,
                !.last_paren = TRUE])

\* The Var arm with every name that is no constant taken for a function.
CtxVar_unresolved(st, token) ==
  LET binding == DEFAULT_VARS(token.name)
  IN IF binding.kind = "Constant"
       THEN Ok([st EXCEPT
                  !.operators = ImplicitMult(st),
                  !.expressions = Append(@, Number(binding.value)),
                  !.last_op = FALSE,
                  !.last_paren = TRUE])
     ELSE Ok([st EXCEPT !.func = <<token.name>>])

\* The Var arm of the match in ContextualizedTokens::from.
CtxVar(st, token) ==
  LET binding == DEFAULT_VARS(token.name)
  IN IF binding.kind = "None" THEN Err(UndefinedIdent(token.name))
     ELSE IF binding.kind = "Constant"
       THEN Ok([st EXCEPT
                  !.operators = ImplicitMult(st),
                  !.expressions = Append(@, Number(binding.value)),
                  !.last_op = FALSE,
                  !.last_paren = TRUE])
     ELSE Ok([st EXCEPT !.func = <<token.name>>])

\* One iteration of the for loop of ContextualizedTokens::from: the match on
\* (token, func), whose arms exclude one another.
CtxIter(st, token) ==
  CASE token.type = "Number" /\ st.func = <<>>
       /\ (st.last_op \/ st.last_paren \/ st.expressions = <<>>) ->
         Ok([st EXCEPT
               !.operators = ImplicitMult(st),
               !.expressions = Append(@, negate(Number(token.value), st.negation_stack)),
               !.last_op = FALSE,
               !.last_paren = FALSE,
               !.negation_stack = 0])
    [] token.type = "Negation" /\ st.func = <<>> ->
         Ok([st EXCEPT !.negation_stack = @ + 1])
    [] token.type = "Op" /\ st.func = <<>> /\ ~st.last_op ->
         Ok([st EXCEPT
               !.operators = Append(@, token.op),
               !.last_op = TRUE,
               !.last_paren = FALSE])
    [] token.type = "Parentheses" -> CtxParentheses(st, token)
    [] token.type = "Var" /\ st.func = <<>> -> CtxVar(st, token)
    [] OTHER -> Err(UnexpectedToken(token))

\* The check that ends ContextualizedTokens::from.
CtxFinish(st) ==
  IF Len(st.expressions) >= Len(st.operators)
     /\ Len(st.expressions) - Len(st.operators) = 1
    THEN Ok([expressions |-> st.expressions, operators |-> st.operators])
    ELSE Err(ParseEOF)

CtxLoop(arr, k, st) ==
  IF k > Len(arr) THEN CtxFinish(st)
  ELSE LET r == CtxIter(st, arr[k])
       IN IF r.ok THEN CtxLoop(arr, k + 1, r.val) ELSE r

\* ContextualizedTokens::from
ContextualizedTokens_from(arr) == CtxLoop(arr, 1, CtxInit)

ast_gen(tokens) ==
  LET ct == ContextualizedTokens_from(tokens)
  IN IF ct.ok THEN into_ast(ct.val) ELSE ct

\* ------------------------------------------------------------------------
\* Evaluator (ast.rs)
\* ------------------------------------------------------------------------

RECURSIVE get_value(_, _)
get_value(expr, mode) ==
  IF expr.type = "Binary"
    THEN LET l == get_value(expr.left, mode)
         IN IF ~l.ok THEN l
            ELSE LET r == get_value(expr.right, mode)
                 IN IF ~r.ok THEN r ELSE Ok(apply(expr.op, l.val, r.val))
  ELSE IF expr.type = "Number" THEN Ok(expr.value)
  ELSE IF expr.type = "Paren" THEN get_value(expr.inner, mode)
  ELSE IF expr.type = "CallExpresion"
    THEN IF DEFAULT_VARS(expr.func).kind = "Function"
           THEN LET a == get_value(expr.arg, mode)
                IN IF a.ok THEN Ok(CallFunction(expr.func, a.val, mode)) ELSE a
           ELSE Err(NonFunction(expr.func))
  ELSE LET v == get_value(expr.inner, mode)
       IN IF v.ok THEN Ok(Neg(v.val)) ELSE v

\* eval_math
eval_math(s, mode) ==
  LET toks == lex(s)
  IN IF ~toks.ok THEN Err(LexErrorMessage(toks.err))
     ELSE LET tree == ast_gen(toks.val)
          IN IF ~tree.ok THEN Err(ParseErrorMessage(tree.err))
             ELSE LET v == get_value(tree.val, mode)
                  IN IF v.ok THEN v ELSE Err(ParseErrorMessage(v.err))

\* ------------------------------------------------------------------------
\* Inputs
\* ------------------------------------------------------------------------

\* The expressions of the test eval_radian_mode (tests.rs), in order.
Test01 == <<"3", " ", "+", " ", "3", " ", "^", " ", "2">>

Test02 == <<"5", " ", "+", " ", "3", " ", "-">>

Test03 == <<"3", "f", "l", "o", "o", "r", "(", "2", ".", "4", ")", " ", "+", " ", "2">>

Test04 == <<" ", " ", "1", " ", "+", " ", "2", "*", " ", " ", " ", "3", " ", "^", "4", "+", " ", " ", " ", "5", " ">>

Test05 == <<"3", "p", "i", "3", "p", "i">>

Test06 == <<"8", "E", "3", " ", "/", " ", "1", "0", "0", " ", "+", " ", "3", "0">>

Test07 == <<"s", "q", "r", "t", "(", "4", "E", "4", ")", " ", "/", " ", "(", "3", " ", "-", " ", "1", ")">>

Test08 == <<"3", " ", ".", "2", "0">>

Test09 == <<"7", " ", "+", " ", "(", "3", ")", " ", "+", " ", "3", "e", "2">>

Test10 == <<"1", " ", "+", " ", "a", "b", "s", "(", "3", " ", "+", " ", "2", " ", "*", " ", "-", "2", "0", " ", "-", " ", "2", ")", " ", "+", " ", "3", " ", "/", " ", "2">>

Test11 == <<"3", " ", "+", " ", "a", "b", "s", " ", "-", " ", "2">>

Test12 == <<"3", " ", "+", " ", "(", ")", " ", "/", " ", "2">>

Test13 == <<"3", " ", "+", " ", "(", "4", " ", "+", " ", "(", "(", "3", ")", ")", " ", "*", " ", "3">>

Test14 == <<"(", "(", "(", "(", "(", "(", "(", "(", "3", ")", ")", ")", ")", ")", " ", "+", " ", "4", ")", ")", ")", " ", "-", " ", "1", " ", "*", " ", "2">>

Test15 == <<"(", "(", "5", "(", "(", "2", " ", "/", " ", "3", ")", "3", ")", ")", "s", "q", "r", "t", "(", "4", ")", " ", "+", " ", "2", ")", " ", "^", " ", "2", " ", "+", " ", "2", "s", "i", "n", "(", "p", "i", ")", " ", "^", " ", "3">>

Test16 == <<"3", "+", "-", "4", "*", "2">>

Test17 == <<"0", "*", "0", "-", "-", "-", "e">>

Test18 == <<"-", "2", "^", "2">>

Test19 == <<"-", "2", "*", "-", "2">>

Test20 == <<"-", "(", "3", " ", "+", " ", "2", ")", "4">>

Test21 == <<"3", "-", "*", "2">>

Test22 == <<"3", "*", "-", "-", "a", "b", "s", "(", "-", "2", ")">>

\* The expressions of the test that the inputs include: all but Test14 and
\* Test15, whose groups nest deeper than the groups of GroupInputs do.
TestInputs ==
  {Test01, Test02, Test03, Test04, Test05, Test06, Test07, Test08, Test09,
   Test10, Test11, Test12, Test13, Test16, Test17, Test18, Test19, Test20,
   Test21, Test22}

SeqsUpTo(A, n) == UNION {[1..m -> A] : m \in 0..n}

RECURSIVE Concat(_)
Concat(ws) == IF ws = <<>> THEN <<>> ELSE Head(ws) \o Concat(Tail(ws))

Str_abs == <<"a", "b", "s">>

\* The pieces the general inputs are written in: any sequence of at most
\* MaxLen of them is an input.
Words ==
  {<<"2">>, <<"-">>, <<"+">>, <<"^">>, <<"(">>, <<")">>, <<" ">>, <<"$">>,
   Str_e, Str_abs}

WordInputs == {Concat(ws) : ws \in SeqsUpTo(Words, MaxLen)}

\* Operands and what stands between two operands: the inputs made of at most
\* MaxOperands operands.
Atoms ==
  {<<"2">>, <<"-", "2">>, <<"-", "-", "3">>, <<"(", "3", ")">>, Str_e,
   Str_abs \o <<"(", "-", "2", ")">>}

Separators == {<<"+">>, <<"*">>, <<"^">>, <<>>}

RECURSIVE Chains(_)
Chains(n) ==
  IF n = 1 THEN Atoms
  ELSE LET shorter == Chains(n - 1)
       IN shorter \cup {c \o sep \o a : c \in shorter, sep \in Separators, a \in Atoms}

ChainInputs == Chains(MaxOperands)

\* The inputs of at most MaxGroupLen characters written with parentheses, a
\* digit and a character the lexer rejects.
GroupInputs == SeqsUpTo({"(", ")", "2", "$"}, MaxGroupLen)

\* `2e2(3)(2)2e e abs(2)`: operands of every kind next to one another.
Juxtaposed ==
  <<"2", "e", "2", "(", "3", ")", "(", "2", ")", "2", "e", " ", "e", " ">>
    \o Str_abs \o <<"(", "2", ")">>

\* `(((3)) + 4) - 1 * 2`: Test14 with three levels of parentheses.
Nested ==
  <<"(", "(", "(", "3", ")", ")", " ", "+", " ", "4", ")", " ", "-", " ", "1",
    " ", "*", " ", "2">>

\* Number syntax: the characters a NumberBuilder accepts, in any order.
NumberInputs == SeqsUpTo({"3", ".", "E", "-", "+"}, MaxNumLen)

\* `-(2)^2`: a negated group as the base of an exponent.
NegatedGroup == <<"-", "(", "2", ")", "^", "2">>

\* `((3+))`: a dangling operator two groups deep.
NestedDangling == <<"(", "(", "3", "+", ")", ")">>

Inputs ==
  WordInputs \cup ChainInputs \cup GroupInputs \cup TestInputs
    \cup NumberInputs \cup {Juxtaposed, Nested, NegatedGroup, NestedDangling}

AngleModes == {"Deg", "Rad"}

\* The angle modes an input is evaluated in: the mode matters to the
\* trigonometric functions only, which only the test expressions call.
ModesOf(s) == IF s \in TestInputs THEN AngleModes ELSE {"Rad"}

\* ------------------------------------------------------------------------
\* The calculator window (window.rs, to_fixed of mod.rs)
\* ------------------------------------------------------------------------

DigitChar(i) == <<"0", "1", "2", "3", "4", "5", "6", "7", "8", "9">>[i + 1]

\* The decimal digits of a natural number.
RECURSIVE DigitsOf(_)
DigitsOf(n) ==
  IF n < 10 THEN <<DigitChar(n)>> ELSE Append(DigitsOf(n \div 10), DigitChar(n % 10))

RECURSIVE Pow10(_)
Pow10(p) == IF p = 0 THEN 1 ELSE 10 * Pow10(p - 1)

\* The first p decimal places of r / d (r < d) as a number, and what remains.
RECURSIVE FracPart(_, _, _)
FracPart(r, d, p) ==
  IF p = 0 THEN [f |-> 0, r |-> r]
  ELSE LET hi == FracPart(r, d, p - 1)
       IN [f |-> hi.f * 10 + (hi.r * 10) \div d, r |-> (hi.r * 10) % d]

\* A value the window holds after to_fixed: sign, integer part and `place`
\* decimal places; the values that are not tracked are carried as such.
NotFixed == [tracked |-> FALSE]

Fixed(neg, int, frac) == [tracked |-> TRUE, neg |-> neg, int |-> int, frac |-> frac]

\* to_fixed(f, place): (f * 10^place).round() / 10^place, half away from zero.
to_fixed(f, place) ==
  IF f = PI THEN Fixed(FALSE, 3, FracPart(1415927, 10000000, place).f)
  ELSE IF f = E THEN Fixed(FALSE, 2, FracPart(7182818, 10000000, place).f)
  ELSE IF ~IsTracked(f) THEN NotFixed
  ELSE LET part == FracPart(Abs(f.n) % f.d, f.d, place)
           up == 2 * part.r >= f.d
           frac == IF up THEN part.f + 1 ELSE part.f
           carry == frac = Pow10(place)
       IN Fixed(f.n < 0,
                (Abs(f.n) \div f.d) + (IF carry THEN 1 ELSE 0),
                IF carry THEN 0 ELSE frac)

\* The p decimal places of frac, without the zeros that end them.
RECURSIVE FracText(_, _)
FracText(frac, p) ==
  IF p = 0 \/ frac = 0 THEN <<>>
  ELSE LET unit == Pow10(p - 1)
       IN <<DigitChar(frac \div unit)>> \o FracText(frac % unit, p - 1)

\* format_ans on a value of to_fixed(_, 7).  A tracked value is below 1E9 and
\* is printed by to_string; the digits of a value that is not tracked are not
\* carried, and "#", which no key or button enters, stands for them.
format_ans(ans) ==
  IF ~ans.tracked THEN <<"#">>
  ELSE (IF ans.neg THEN <<"-">> ELSE <<>>)
         \o DigitsOf(ans.int)
         \o (IF ans.frac = 0 THEN <<>> ELSE <<".">> \o FracText(ans.frac, 7))

ok_key(c) == c \in {"(", ")", ".", "-", "+", "*", "/", "^", "E"} \/ is_digit(c)

\* prev_ans: Some(v); None is [some |-> FALSE].
SomeAns(v) == [some |-> TRUE, value |-> v]

\* AngleMode: Not.
NotMode(m) == IF m = "Deg" THEN "Rad" ELSE "Deg"

\* CalculatorState::new.  inverted is the flag that all InvFunction buttons
\* hold and invert flips together; the label of an empty Label is <<>>.
CalculatorState_new ==
  [angle_mode |-> "Rad", prev_ans |-> [some |-> FALSE], textarea |-> <<>>,
   err_label |-> <<>>, clear_next |-> TRUE, inverted |-> FALSE]

last_ans(self) ==
  IF self.prev_ans.some THEN format_ans(self.prev_ans.value) ELSE <<>>

clear(self) == [self EXCEPT !.textarea = <<>>]

add_str(self, s) ==
  [self EXCEPT !.textarea = (IF self.clear_next THEN <<>> ELSE @) \o s,
               !.clear_next = FALSE]

invert(self) == [self EXCEPT !.inverted = ~@]

\* The match of evaluate that asks for a fresh entry after a failure as well.
evaluate_match_clear_next(self, result) ==
  IF result.ok
    THEN LET fixed == to_fixed(result.val, 7)
         IN [self EXCEPT !.prev_ans = SomeAns(fixed),
                         !.textarea = format_ans(fixed),
                         !.clear_next = TRUE]
    ELSE [self EXCEPT !.err_label = result.err, !.clear_next = TRUE]

\* The match of evaluate, on what eval_math returned.
evaluate_match(self, result) ==
  IF result.ok
    THEN LET fixed == to_fixed(result.val, 7)
         IN [self EXCEPT !.prev_ans = SomeAns(fixed),
                         !.textarea = format_ans(fixed),
                         !.clear_next = TRUE]
    ELSE [self EXCEPT !.err_label = result.err]

evaluate(self) ==
  evaluate_match(self, eval_math(self.textarea, self.angle_mode))

backspace(self, size) ==
  LET len == Len(self.textarea)
      from == IF len >= size THEN len - size ELSE 0
  IN [self EXCEPT !.textarea = SubSeq(@, 1, from)]

\* ButtonData, with the label of a Simple button in the record.
Simple(label) == [kind |-> "Simple", label |-> label]

Renamed(push_in) == [kind |-> "Renamed", push_in |-> push_in]

Function(name) == [kind |-> "Function", name |-> name]

InvFunction(name, inverted_name) ==
  [kind |-> "InvFunction", name |-> name, inverted_name |-> inverted_name]

Special(event) == [kind |-> "Special", event |-> event]

\* send_btn_message, the button's data in message.
send_btn_message(self, message) ==
  LET s0 == [self EXCEPT !.err_label = <<>>]
  IN CASE message.kind = "Simple" -> add_str(s0, message.label)
       [] message.kind = "Renamed" -> add_str(s0, message.push_in)
       [] message.kind = "Function" -> add_str(s0, message.name \o <<"(">>)
       [] message.kind = "InvFunction" ->
            add_str(s0, (IF self.inverted THEN message.inverted_name ELSE message.name)
                          \o <<"(">>)
       [] message.event = "Inv" -> invert(s0)
       [] message.event = "Ans" -> add_str(s0, last_ans(s0))
       [] message.event = "Clear" -> clear(s0)
       [] message.event = "DegMode" -> [s0 EXCEPT !.angle_mode = NotMode(@)]
       [] message.event = "Evaluate" -> evaluate(s0)
       [] OTHER -> backspace(s0, 1)

\* The key press handler of Calculator::new: key is the character of the
\* key, or the name of a key that has none.
key_press(self, key) ==
  IF ok_key(key) THEN add_str(self, <<key>>)
  ELSE IF key \in {"BackSpace", "Delete"} THEN backspace(self, 1)
  ELSE IF key = "Return" THEN evaluate(self)
  ELSE self

\* ------------------------------------------------------------------------
\* State: one call of eval_math(input, mode)
\* ------------------------------------------------------------------------

VARIABLES
  input,        \* s, the expression given to eval_math
  mode,         \* the angle mode given to eval_math
  pc,           \* "lex", "ctx", "reduce", "eval" or "done"
  ind,          \* lex_ind: the position counter
  tokens,       \* lex_ind: the tokens collected so far, then its result
  pending_num,  \* lex_ind: the builder in progress
  k,            \* ContextualizedTokens::from: number of tokens consumed
  st,           \* ContextualizedTokens::from: its locals
  ct,           \* into_ast: self, the (expressions, operators) pair
  tier,         \* into_ast: index in VALUES of the tier in progress, 0 before
  instances,    \* into_ast: the positions of the tier still to fold
  ast,          \* the tree ast_gen returned, NoAst before
  error,        \* the LexError or ParseError raised, NoError if none
  outcome,      \* what eval_math returned, NoOutcome before
  state         \* the CalculatorState of the window

\* The variables of one call of eval_math.
call_vars ==
  <<input, mode, pc, ind, tokens, pending_num, k, st, ct, tier, instances,
    ast, error, outcome>>

vars == <<call_vars, state>>

NoCt == [expressions |-> <<>>, operators |-> <<>>]

NoAst == [type |-> "None"]

NoError == [from |-> "None", kind |-> "None"]

NoOutcome == [ok |-> FALSE, err |-> <<>>]

InitWith(S) ==
  /\ input \in S
  /\ mode \in ModesOf(input)
  /\ pc = "lex"
  /\ ind = 0
  /\ tokens = <<>>
  /\ pending_num = NoBuilder
  /\ k = 0
  /\ st = CtxInit
  /\ ct = NoCt
  /\ tier = 0
  /\ instances = <<>>
  /\ ast = NoAst
  /\ error = NoError
  /\ outcome = NoOutcome
  /\ state = CalculatorState_new

Init == InitWith(Inputs)

\* eval_math returns the message of a lexer error.
FailLex(e) ==
  /\ pc' = "done"
  /\ error' = e
  /\ outcome' = Err(LexErrorMessage(e))

\* eval_math returns the message of a parse error.
FailParse(e) ==
  /\ pc' = "done"
  /\ error' = e
  /\ outcome' = Err(ParseErrorMessage(e))

\* One iteration of the while loop of lex_ind on the top-level input.
LexChar ==
  /\ pc = "lex"
  /\ ind < Len(input)
  /\ LET r == LexIter(input, ind + 1, ind, tokens, pending_num)
     IN IF r.ok
          THEN /\ tokens' = r.val.tokens
               /\ pending_num' = r.val.pending_num
               /\ ind' = ind + 1
               /\ UNCHANGED <<pc, error, outcome>>
          ELSE /\ FailLex(r.err)
               /\ UNCHANGED <<tokens, pending_num, ind>>
  /\ UNCHANGED <<input, mode, k, st, ct, tier, instances, ast>>
  /\ UNCHANGED state

\* The end of lex_ind on the top-level input: the final check on the tokens.
LexEnd ==
  /\ pc = "lex"
  /\ ind = Len(input)
  /\ LET r == LexFilter(tokens)
     IN IF r.ok
          THEN /\ pc' = "ctx"
               /\ UNCHANGED <<error, outcome>>
          ELSE FailLex(r.err)
  /\ UNCHANGED <<input, mode, ind, tokens, pending_num, k, st, ct, tier,
                 instances, ast>>
  /\ UNCHANGED state

\* One iteration of the for loop of ContextualizedTokens::from.
CtxToken ==
  /\ pc = "ctx"
  /\ k < Len(tokens)
  /\ LET r == CtxIter(st, tokens[k + 1])
     IN IF r.ok
          THEN /\ st' = r.val
               /\ k' = k + 1
               /\ UNCHANGED <<pc, error, outcome>>
          ELSE /\ FailParse(r.err)
               /\ UNCHANGED <<st, k>>
  /\ UNCHANGED <<input, mode, ind, tokens, pending_num, ct, tier, instances, ast>>
  /\ UNCHANGED state

\* The end of ContextualizedTokens::from: the length check.
CtxEnd ==
  /\ pc = "ctx"
  /\ k = Len(tokens)
  /\ LET r == CtxFinish(st)
     IN IF r.ok
          THEN /\ ct' = r.val
               /\ pc' = "reduce"
               /\ UNCHANGED <<error, outcome>>
          ELSE /\ FailParse(r.err)
               /\ UNCHANGED ct
  /\ UNCHANGED <<input, mode, ind, tokens, pending_num, k, st, tier, instances, ast>>
  /\ UNCHANGED state

\* into_ast: the entry check, then the positions of the highest tier.
IntoAstEnter ==
  /\ pc = "reduce"
  /\ tier = 0
  /\ IF Len(ct.expressions) # Len(ct.operators) + 1
       THEN /\ FailParse(ParseEOF)
            /\ UNCHANGED <<tier, instances>>
       ELSE /\ tier' = Len(OperatorPrecedence_VALUES)
            /\ instances' = Instances(ct.operators,
                                      OperatorPrecedence_VALUES[Len(OperatorPrecedence_VALUES)])
            /\ UNCHANGED <<pc, error, outcome>>
  /\ UNCHANGED <<input, mode, ind, tokens, pending_num, k, st, ct, ast>>
  /\ UNCHANGED state

\* into_ast: one call of reduce_at in the loop over the tier's positions.
ReduceAt ==
  /\ pc = "reduce"
  /\ tier > 0
  /\ instances # <<>>
  /\ ct' = reduce_at(ct, Head(instances), OperatorPrecedence_VALUES[tier] = "Exp")
  /\ instances' = Tail(instances)
  /\ UNCHANGED <<input, mode, pc, ind, tokens, pending_num, k, st, tier, ast,
                 error, outcome>>
  /\ UNCHANGED state

\* into_ast: the tier is done; collect the positions of the next lower one.
NextTier ==
  /\ pc = "reduce"
  /\ tier > 1
  /\ instances = <<>>
  /\ tier' = tier - 1
  /\ instances' = Instances(ct.operators, OperatorPrecedence_VALUES[tier - 1])
  /\ UNCHANGED <<input, mode, pc, ind, tokens, pending_num, k, st, ct, ast,
                 error, outcome>>
  /\ UNCHANGED state

\* into_ast: all tiers are done; the result is the only expression left.
IntoAstEnd ==
  /\ pc = "reduce"
  /\ tier = 1
  /\ instances = <<>>
  /\ LET r == IntoAstFinish(ct)
     IN IF r.ok
          THEN /\ ast' = r.val
               /\ pc' = "eval"
               /\ UNCHANGED <<error, outcome>>
          ELSE /\ FailParse(r.err)
               /\ UNCHANGED ast
  /\ UNCHANGED <<input, mode, ind, tokens, pending_num, k, st, ct, tier, instances>>
  /\ UNCHANGED state

\* eval_math: get_value on the tree, with the mode of the call.
GetValue ==
  /\ pc = "eval"
  /\ LET v == get_value(ast, mode)
     IN IF v.ok
          THEN /\ outcome' = v
               /\ pc' = "done"
               /\ UNCHANGED error
          ELSE FailParse(v.err)
  /\ UNCHANGED <<input, mode, ind, tokens, pending_num, k, st, ct, tier,
                 instances, ast>>
  /\ UNCHANGED state

Next ==
  \/ LexChar
  \/ LexEnd
  \/ CtxToken
  \/ CtxEnd
  \/ IntoAstEnter
  \/ ReduceAt
  \/ NextTier
  \/ IntoAstEnd
  \/ GetValue

Spec == Init /\ [][Next]_vars

\* ------------------------------------------------------------------------
\* State: the window, its buttons clicked and keys pressed
\* ------------------------------------------------------------------------

\* Buttons of Calculator::new: some of each kind of ButtonData, and the
\* special buttons but ANS, which feeds every answer back into the entry.
Buttons ==
  {Simple(<<"2">>), Renamed(<<"-">>),
   Function(<<"l", "n">>),
   InvFunction(<<"s", "i", "n">>, <<"a", "s", "i", "n">>),
   Special("Inv"), Special("DegMode"), Special("Evaluate"),
   Special("Clear"), Special("Del")}

\* Keys: a character that ok_key accepts and the names of keys without one.
Keys == {"2", "BackSpace", "Return", "Tab"}

\* The entry is kept to MaxText characters: a handler that would make it
\* longer than that is not taken.
Fits(self) ==
  Len(self.textarea) <= MaxText \/ Len(self.textarea) <= Len(state.textarea)

\* The window opens while no call of eval_math is in progress; evaluate
\* applies eval_math as a function.
WindowInit ==
  /\ input = <<>>
  /\ mode = "Rad"
  /\ pc = "done"
  /\ ind = 0
  /\ tokens = <<>>
  /\ pending_num = NoBuilder
  /\ k = 0
  /\ st = CtxInit
  /\ ct = NoCt
  /\ tier = 0
  /\ instances = <<>>
  /\ ast = NoAst
  /\ error = NoError
  /\ outcome = NoOutcome
  /\ state = CalculatorState_new

\* The clicked handler of schedule_event, for one button.
Click(button) ==
  /\ \E next \in {send_btn_message(state, button)} :
       Fits(next) /\ state' = next
  /\ UNCHANGED call_vars

Clicked == \E button \in Buttons : Click(button)

\* The key press handler, for one key.
Key(key) ==
  /\ \E next \in {key_press(state, key)} :
       Fits(next) /\ state' = next
  /\ UNCHANGED call_vars

KeyPressed == \E key \in Keys : Key(key)

WindowNext ==
  \/ Clicked
  \/ KeyPressed

WindowSpec == WindowInit /\ [][WindowNext]_vars

\* ------------------------------------------------------------------------
\* Properties
\* ------------------------------------------------------------------------

\* The rank of an operator's precedence tier as the specification orders
\* them: Exponent > Multiply/Divide > Add/Subtract.
TierRank(op) ==
  IF op = "Exp" THEN 3 ELSE IF op \in {"Mult", "Div"} THEN 2 ELSE 1

\* The number of Negation layers an expression is wrapped in.
RECURSIVE NegDepth(_)
NegDepth(e) == IF e.type = "Negation" THEN 1 + NegDepth(e.inner) ELSE 0

\* The expression under those layers.
RECURSIVE Core(_)
Core(e) == IF e.type = "Negation" THEN Core(e.inner) ELSE e

\* e wrapped in n Negation layers.
RECURSIVE Wrap(_, _)
Wrap(e, n) == IF n = 0 THEN e ELSE [type |-> "Negation", inner |-> Wrap(e, n - 1)]

\* The node into which an operator joins two operands: the Negation layers
\* of an exponent's left operand are moved outside the node.
Joined(op, l, r) ==
  IF op = "Exp"
    THEN Wrap([type |-> "Binary", op |-> op, left |-> Core(l), right |-> r], NegDepth(l))
    ELSE [type |-> "Binary", op |-> op, left |-> l, right |-> r]

\* ast_gen has returned a tree for three top-level operands and two operators.
ThreeOperands ==
  /\ ast # NoAst
  /\ Len(st.expressions) = 3
  /\ Len(st.operators) = 2

\* C1 (as amended): for three operands joined by two operators of different
\* tiers, `a op1 b op2 c`, the tree of ast_gen joins the operands of the
\* higher-tier operator first and the result with the third operand, left
\* and right operands in input order; where the higher-tier operator is the
\* exponent, the Negation layers of its left operand wrap the exponent node.
\* `3 + 3 ^ 2` evaluates to 12.
C1_Precedence ==
  /\ ThreeOperands =>
       LET a == st.expressions[1]
           b == st.expressions[2]
           c == st.expressions[3]
           op1 == st.operators[1]
           op2 == st.operators[2]
       IN /\ TierRank(op2) > TierRank(op1) =>
               ast = [type |-> "Binary", op |-> op1, left |-> a,
                      right |-> Joined(op2, b, c)]
          /\ TierRank(op1) > TierRank(op2) =>
               ast = [type |-> "Binary", op |-> op2, left |-> Joined(op1, a, b),
                      right |-> c]
  /\ (input = Test01 /\ pc = "done") => outcome = Ok(IntVal(12))

\* C1, witness: `2*-2^(3)` has been parsed, the exponent's left operand negated.
C1_Witness ==
  /\ ThreeOperands
  /\ pc = "done"
  /\ st.operators = <<"Mult", "Exp">>
  /\ st.expressions[1] = Number(IntVal(2))
  /\ st.expressions[2] = Negation(Number(IntVal(2)))
  /\ st.expressions[3] = Paren(Number(IntVal(3)))

\* C1 as stated: the tree is BinaryOp(op1, a, BinaryOp(op2, b, c)) when op2
\* is of the higher tier and BinaryOp(op2, BinaryOp(op1, a, b), c) when op1 is.
C1_AsStated ==
  ThreeOperands =>
    LET a == st.expressions[1]
        b == st.expressions[2]
        c == st.expressions[3]
        op1 == st.operators[1]
        op2 == st.operators[2]
    IN /\ TierRank(op2) > TierRank(op1) =>
            ast = [type |-> "Binary", op |-> op1, left |-> a,
                   right |-> [type |-> "Binary", op |-> op2, left |-> b, right |-> c]]
       /\ TierRank(op1) > TierRank(op2) =>
            ast = [type |-> "Binary", op |-> op2,
                   left |-> [type |-> "Binary", op |-> op1, left |-> a, right |-> b],
                   right |-> c]

\* The reducer folds one operator: a step of the loop over instances.
FoldStep ==
  /\ pc = "reduce"
  /\ instances # <<>>
  /\ instances' = Tail(instances)

\* C2: when the reducer folds an exponent whose left operand is X under n
\* Negation layers, the operands become the exponent node on X and the
\* unchanged right operand, under exactly n Negation layers; when it folds
\* any other operator the node joins the two operands as they are.  The
\* other operands and operators stay.  `-2^2` is -4 and `-2*-2` is 4.
C2_ExponentNegation ==
  /\ [][FoldStep =>
          LET i == Head(instances) + 1
              op == ct.operators[i]
              l == ct.expressions[i]
              r == ct.expressions[i + 1]
              node == [type |-> "Binary", op |-> op, right |-> r,
                       left |-> IF op = "Exp" THEN Core(l) ELSE l]
          IN /\ i <= Len(ct.operators)
             /\ ct'.operators = SubSeq(ct.operators, 1, i - 1)
                                  \o SubSeq(ct.operators, i + 1, Len(ct.operators))
             /\ ct'.expressions = SubSeq(ct.expressions, 1, i - 1)
                                    \o <<IF op = "Exp" THEN Wrap(node, NegDepth(l)) ELSE node>>
                                    \o SubSeq(ct.expressions, i + 2, Len(ct.expressions))]_vars
  /\ []((input = Test18 /\ pc = "done") => outcome = Ok(IntVal(0 - 4)))
  /\ []((input = Test19 /\ pc = "done") => outcome = Ok(IntVal(4)))

\* C2, witness: the reducer has folded the exponent of `2*--3^2` into a node
\* on 3 and 2 under two Negation layers.
C2_Witness ==
  /\ pc = "reduce"
  /\ tier = 3
  /\ st.expressions =
       <<Number(IntVal(2)), Negation(Negation(Number(IntVal(3)))), Number(IntVal(2))>>
  /\ ct.operators = <<"Mult">>
  /\ ct.expressions =
       <<Number(IntVal(2)),
         Negation(Negation(Binary("Exp", Number(IntVal(3)), Number(IntVal(2)))))>>

\* A token that ends an operand: a number, a group, or a constant's name.
EndsOperand(t) ==
  \/ t.type \in {"Number", "Parentheses"}
  \/ t.type = "Var" /\ t.name \in ConstantNames

\* Contextualization appends an operand: a step of the loop over the tokens
\* that adds an expression.
OperandStep ==
  /\ pc = "ctx"
  /\ k' = k + 1
  /\ Len(st'.expressions) = Len(st.expressions) + 1

\* The operand being appended starts directly after another operand: the
\* token before its first token (the function's name, for a call) ends one.
AfterOperand ==
  LET first == IF tokens[k + 1].type = "Parentheses" /\ k >= 1
                  /\ tokens[k].type = "Var" /\ tokens[k].name \in FunctionNames
                 THEN k
                 ELSE k + 1
  IN first >= 2 /\ EndsOperand(tokens[first - 1])

\* C3: whenever contextualization appends an operand directly after another
\* operand, no operator token between them, it adds exactly one Mult to the
\* operators and nothing else, and the operand to the expressions.
\* `3floor(2.4) + 2` is 8, `-(3 + 2)4` is -20, `3pi3pi` is ((3*pi)*3)*pi.
C3_ImplicitMultiplication ==
  /\ [][(OperandStep /\ AfterOperand) =>
          /\ st'.operators = st.operators \o <<"Mult">>
          /\ SubSeq(st'.expressions, 1, Len(st.expressions)) = st.expressions]_vars
  /\ []((input = Test03 /\ pc = "done") => outcome = Ok(IntVal(8)))
  /\ []((input = Test20 /\ pc = "done") => outcome = Ok(IntVal(0 - 20)))
  /\ []((input = Test05 /\ pc = "done") =>
          ast = [type |-> "Binary", op |-> "Mult",
                 left |-> [type |-> "Binary", op |-> "Mult",
                           left |-> [type |-> "Binary", op |-> "Mult",
                                     left |-> Number(IntVal(3)),
                                     right |-> Number(PI)],
                           right |-> Number(IntVal(3))],
                 right |-> Number(PI)])

\* C3, witness: `2e2(3)(2)2e e abs(2)` has been contextualized: a number, a
\* constant, a number, two groups, a number, two constants and a call, with
\* a Mult between each two.
C3_Witness ==
  /\ input = Juxtaposed
  /\ pc = "reduce"
  /\ st.operators = <<"Mult", "Mult", "Mult", "Mult", "Mult", "Mult", "Mult", "Mult">>
  /\ [i \in 1..9 |-> st.expressions[i].type]
       = <<"Number", "Number", "Number", "Paren", "Paren", "Number", "Number",
           "Number", "CallExpresion">>
  /\ [i \in 1..10 |-> tokens[i].type]
       = <<"Number", "Var", "Number", "Parentheses", "Parentheses", "Number",
           "Var", "Var", "Var", "Parentheses">>

\* The lexer reads the character at offset ind as the start of a token.
TokenStart ==
  /\ pc = "lex"
  /\ ind < Len(input)
  /\ pending_num = NoBuilder

\* The number of Negation tokens that end the first n tokens.
RECURSIVE NegationsBefore(_)
NegationsBefore(n) ==
  IF n >= 1 /\ tokens[n].type = "Negation" THEN 1 + NegationsBefore(n - 1) ELSE 0

\* The Negation layers around an operand; those of a group may lie directly
\* inside its parentheses.
Layers(e) == IF e.type = "Paren" THEN NegDepth(e.inner) ELSE NegDepth(e)

\* C4 as stated: every '-' in operand position (at the very start of the
\* input, or directly after a binary operator or after another '-') is lexed
\* as a Negation token of its own, and the operand that follows k Negation
\* tokens is appended under exactly k Negation layers.
C4_StackedNegation ==
  /\ [][(TokenStart /\ input[ind + 1] = "-"
           /\ (ind = 0 \/ is_operator(input[ind])))
          => tokens' = tokens \o <<TNegation>>]_vars
  /\ [][OperandStep =>
          LET first == IF tokens[k + 1].type = "Parentheses" /\ k >= 1
                          /\ tokens[k].type = "Var"
                         THEN k
                         ELSE k + 1
          IN Layers(st'.expressions[Len(st'.expressions)])
               = NegationsBefore(first - 1)]_vars

\* The '(' less the ')' among the characters a..b of s.
Bal(s, a, b) ==
  Cardinality({j \in a..b : s[j] = "("}) - Cardinality({j \in a..b : s[j] = ")"})

\* The ')' at q matches the '(' at p.
Matches(s, p, q) ==
  /\ p < q
  /\ s[p] = "("
  /\ s[q] = ")"
  /\ Bal(s, p, q) = 0
  /\ \A j \in p..(q - 1) : Bal(s, p, j) > 0

Balanced(s) ==
  /\ Bal(s, 1, Len(s)) = 0
  /\ \A j \in 1..Len(s) : Bal(s, 1, j) >= 0

\* The positions of the '(' of s that lie outside every other group.
TopLevelOpens(s) == {p \in 1..Len(s) : s[p] = "(" /\ Bal(s, 1, p - 1) = 0}

\* lex has returned tokens for the input.
Lexed == pc \notin {"lex"} /\ error.from # "LexError"

\* C5: while a group is open the builder holds exactly the characters after
\* its '(' and its level is their nesting depth, above 0; the group's token
\* is made at the ')' that matches its '(', its content is the token
\* sequence of the substring between the two, and lexing goes on with the
\* character after that ')'; when the lexer accepts an input with balanced
\* parentheses its tokens hold one group per top-level '('.
\* `(((3)) + 4) - 1 * 2` is 5.
C5_NestedGrouping ==
  /\ []((pc = "lex" /\ pending_num.kind = "Parentheses") =>
          /\ ~pending_num.complete
          /\ input[pending_num.start + 1] = "("
          /\ pending_num.inner = SubSeq(input, pending_num.start + 2, ind)
          /\ pending_num.level = 1 + Bal(input, pending_num.start + 2, ind)
          /\ \A j \in (pending_num.start + 1)..ind :
               Bal(input, pending_num.start + 1, j) > 0)
  /\ [][(pc = "lex" /\ pending_num.kind = "Parentheses" /\ tokens' # tokens) =>
          LET open == pending_num.start + 1
              close == ind + 1
              content == lex(SubSeq(input, open + 1, close - 1))
          IN /\ Matches(input, open, close)
             /\ content.ok
             /\ tokens' = tokens \o <<TParentheses(content.val)>>
             /\ pending_num' = NoBuilder
             /\ ind' = close]_vars
  /\ []((Lexed /\ Balanced(input)) =>
          Cardinality({i \in 1..Len(tokens) : tokens[i].type = "Parentheses"})
            = Cardinality(TopLevelOpens(input)))
  /\ []((input = Nested /\ pc = "done") => outcome = Ok(IntVal(5)))

\* C5, witness: `(((3)) + 4) - 1 * 2` has been evaluated, its first token a
\* group that holds a group that holds a group.
C5_Witness ==
  /\ input = Nested
  /\ pc = "done"
  /\ outcome.ok
  /\ Len(tokens) = 5
  /\ tokens[1] =
       TParentheses(<<TParentheses(<<TParentheses(<<TNumber(IntVal(3))>>)>>),
                      TOp("Plus"), TNumber(IntVal(4))>>)

\* The while loop of lex_ind has read the whole input.
LoopDone == pc # "lex" /\ ind = Len(input)

\* The last of the tokens is an operator or a negation.
Dangling == tokens # <<>> /\ tokens[Len(tokens)].type \in {"Op", "Negation"}

\* C6: when the tokens of the whole top-level input end in an Op or a
\* Negation token, lex fails with UnexpectedEOF and eval_math returns
\* "Incomplete expression"; the tokens lex returns never end in one.
\* `5 + 3 -` fails so.
C6_DanglingOperator ==
  /\ (LoopDone /\ Dangling) =>
       /\ pc = "done"
       /\ error = UnexpectedEOF
       /\ outcome = Err(<<"Incomplete expression">>)
  /\ Lexed => ~Dangling
  /\ (input = Test02 /\ pc = "done") =>
       /\ error = UnexpectedEOF
       /\ outcome = Err(<<"Incomplete expression">>)

\* C6, witness: `5 + 3 -` has been read to its end, the last token the Minus.
C6_Witness ==
  /\ input = Test02
  /\ pc = "done"
  /\ LoopDone
  /\ tokens = <<TNumber(IntVal(5)), TOp("Plus"), TNumber(IntVal(3)), TOp("Minus")>>

\* C7 as stated: an UnexpectedCharacter error carries a character of the
\* input and the 0-based offset at which it stands in the top-level input,
\* also inside groups.  `3 .20` reports '.' at 2 and `3-*2` reports '*' at 2.
C7_ErrorPosition ==
  /\ (pc = "done" /\ error.kind = "UnexpectedCharacter") =>
       /\ error.position < Len(input)
       /\ input[error.position + 1] = error.character
  /\ (input = Test08 /\ pc = "done") => error = UnexpectedCharacter(".", 2)
  /\ (input = Test21 /\ pc = "done") => error = UnexpectedCharacter("*", 2)

\* s holds a '(' directly followed by a ')'.
HasEmptyPair(s) == \E p \in 1..(Len(s) - 1) : s[p] = "(" /\ s[p + 1] = ")"

\* s with a 2 written into each such pair.
RECURSIVE Filled(_)
Filled(s) ==
  IF s = <<>> THEN <<>>
  ELSE IF Len(s) >= 2 /\ s[1] = "(" /\ s[2] = ")"
    THEN <<"(", "2">> \o Filled(Tail(s))
    ELSE <<Head(s)>> \o Filled(Tail(s))

\* C8: an input with a pair of parentheses that has nothing between them,
\* at any depth, whose lexing would succeed with an operand in each such
\* pair, makes lex fail with EmptyParentheses, and eval_math return "Empty
\* parentheses".  `3 + () / 2` fails so.
C8_EmptyGroup ==
  /\ (pc = "done" /\ HasEmptyPair(input) /\ lex(Filled(input)).ok) =>
       /\ error = EmptyParentheses
       /\ outcome = Err(<<"Empty parentheses">>)
  /\ (input = Test12 /\ pc = "done") => outcome = Err(<<"Empty parentheses">>)

\* C8, witness: `((()))` has failed, its empty pair two groups deep.
C8_Witness ==
  /\ input = <<"(", "(", "(", ")", ")", ")">>
  /\ pc = "done"
  /\ error = EmptyParentheses
  /\ lex(Filled(input)).ok

\* The '(' at p has no matching ')'.
Unmatched(s, p) == s[p] = "(" /\ \A q \in (p + 1)..Len(s) : ~Matches(s, p, q)

\* The lexer stands at, or is reading the group of, a '(' without a match.
AtUnmatched ==
  \/ TokenStart /\ Unmatched(input, ind + 1)
  \/ pc = "lex" /\ pending_num.kind = "Parentheses"
       /\ Unmatched(input, pending_num.start + 1)

\* C9 as stated: once the lexer has reached a '(' that has no matching ')',
\* whatever follows it, if anything, lexing does not get past the end of
\* the input and fails with UnexpectedEOF, eval_math returning "Incomplete
\* expression".  `3 + (4 + ((3)) * 3` fails so.
C9_UnterminatedGroup ==
  /\ [][(AtUnmatched /\ (pc' = "done" \/ ind' = Len(input))) =>
          /\ pc' = "done"
          /\ error' = UnexpectedEOF
          /\ outcome' = Err(<<"Incomplete expression">>)]_vars
  /\ []((input = Test13 /\ pc = "done") => outcome = Err(<<"Incomplete expression">>))

\* Contextualization has read the name of a function and holds it.
FunctionRead ==
  /\ pc = "ctx"
  /\ k >= 1
  /\ tokens[k].type = "Var"
  /\ tokens[k].name \in FunctionNames

\* C10: after contextualization has read the name of a function it holds
\* the name, and the step on the next token either reads a group, appends
\* the call of that function on the group's tree (under the pending
\* negations) and holds no name any more, or fails: with the group's own
\* error, or, for any token that is no group, with UnexpectedToken on that
\* token.  `3 + abs - 2` fails with "Unexpected operator -".
C10_PendingFunction ==
  /\ [](FunctionRead => st.func = <<tokens[k].name>>)
  /\ [][(FunctionRead /\ k < Len(tokens) /\ (k' # k \/ pc' # pc)) =>
          LET name == tokens[k].name
              next == tokens[k + 1]
              arg == ast_gen(next.tokens)
          IN IF next.type = "Parentheses"
               THEN IF arg.ok
                      THEN /\ pc' = "ctx"
                           /\ k' = k + 1
                           /\ st'.func = <<>>
                           /\ Len(st'.expressions) = Len(st.expressions) + 1
                           /\ st'.expressions[Len(st'.expressions)]
                                = Wrap([type |-> "CallExpresion", func |-> name,
                                        arg |-> arg.val], st.negation_stack)
                      ELSE pc' = "done" /\ error' = arg.err
               ELSE /\ pc' = "done"
                    /\ error' = [from |-> "ParseError", kind |-> "UnexpectedToken",
                                 arg |-> next]]_vars
  /\ []((input = Test11 /\ pc = "done") =>
          outcome = Err(<<"Unexpected {}", <<"operator {}", "-">>>>))

\* C10, witness: `3 + abs - 2` has failed on the Minus that follows abs.
C10_Witness ==
  /\ input = Test11
  /\ pc = "done"
  /\ st.func = <<Str_abs>>
  /\ tokens[k] = TVar(Str_abs)
  /\ error = UnexpectedToken(TOp("Minus"))

\* The last token that is not a Negation is an Operator.
AfterOperator(toks) ==
  LET n == Len(toks) - NegationsBefore(Len(toks))
  IN n >= 1 /\ toks[n].type = "Op"

\* No two Op tokens of toks, at any depth, have only Negation tokens, or
\* nothing, between them.
RECURSIVE OperatorsApart(_)
OperatorsApart(toks) ==
  /\ \A i \in 1..Len(toks) : \A j \in (i + 1)..Len(toks) :
       (toks[i].type = "Op" /\ toks[j].type = "Op")
         => \E m \in (i + 1)..(j - 1) : toks[m].type # "Negation"
  /\ \A i \in 1..Len(toks) :
       toks[i].type = "Parentheses" => OperatorsApart(toks[i].tokens)

\* An operator character stands before offset p of s with only whitespace
\* and '-' characters between.
OperatorBefore(s, p) ==
  \E q \in 1..p :
    /\ is_operator(s[q])
    /\ \A j \in (q + 1)..p : is_whitespace(s[j]) \/ s[j] = "-"

\* C11 as stated: a character is lexed as an Op token only when the last
\* token that is not a Negation is not an Op; one of `^ * / +` read after an
\* Op, or after an Op and the Negation tokens that follow it, fails with
\* UnexpectedCharacter for that character at its offset in the input, also
\* inside groups; the token sequence lex returns has, at every depth,
\* something other than Negation tokens between any two Op tokens.  `3-*2`
\* fails with '*' at 2.
C11_OperatorAdjacency ==
  /\ [][(TokenStart /\ Len(tokens') = Len(tokens) + 1
           /\ tokens'[Len(tokens')].type = "Op")
          => (is_operator(input[ind + 1]) /\ ~AfterOperator(tokens))]_vars
  /\ [][(TokenStart /\ input[ind + 1] \in {"^", "*", "/", "+"}
           /\ AfterOperator(tokens))
          => (pc' = "done"
              /\ error' = UnexpectedCharacter(input[ind + 1], ind))]_vars
  /\ []((pc = "done" /\ error.from = "LexError"
           /\ error.kind = "UnexpectedCharacter"
           /\ error.character \in {"^", "*", "/", "+"})
          => /\ error.position < Len(input)
             /\ input[error.position + 1] = error.character
             /\ OperatorBefore(input, error.position))
  /\ [](Lexed => OperatorsApart(tokens))
  /\ []((input = Test21 /\ pc = "done")
          => error = UnexpectedCharacter("*", 2))

\* C12 as stated: when eval_math fails with ParseError::UnexpectedEOF the
\* message it returns is that of LexError::UnexpectedEOF, "Incomplete
\* expression".
C12_SameMessage ==
  (pc = "done" /\ error = ParseEOF) =>
    /\ outcome = Err(LexErrorMessage(UnexpectedEOF))
    /\ outcome = Err(<<"Incomplete expression">>)

\* C12, amended: the two UnexpectedEOF errors have messages of their own.
\* When eval_math fails with ParseError::UnexpectedEOF, as on the empty
\* string, on a group that holds only whitespace and on `+2`, it returns
\* "Unexpected end of file"; when it fails with LexError::UnexpectedEOF it
\* returns "Incomplete expression".
C12_EndOfFileMessage ==
  /\ (pc = "done" /\ error = ParseEOF) =>
       outcome = Err(<<"Unexpected end of file">>)
  /\ (pc = "done" /\ error = UnexpectedEOF) =>
       outcome = Err(<<"Incomplete expression">>)
  /\ (pc = "done" /\ input \in {<<>>, <<"(", " ", ")">>, <<"+", "2">>}) =>
       error = ParseEOF

\* C12, witness: `+2` has been lexed as a Plus and a number and has failed
\* in contextualization with ParseError::UnexpectedEOF.
C12_Witness ==
  /\ input = <<"+", "2">>
  /\ pc = "done"
  /\ tokens = <<TOp("Plus"), TNumber(IntVal(2))>>
  /\ error = ParseEOF

\* Contextualization appends the operand of a Constant identifier.
ConstantStep ==
  /\ OperandStep
  /\ tokens[k + 1].type = "Var"
  /\ tokens[k + 1].name \in ConstantNames

\* C13 as stated: a Constant identifier is appended like a Number: with n
\* Negation marks pending the appended expression is the constant's value
\* under n Negation layers, and the pending depth is reset to zero, so that
\* it does not reach a later operand.  `-e` is parsed as the negation of e.
C13_ConstantNegation ==
  /\ [][ConstantStep =>
          /\ st'.expressions[Len(st'.expressions)]
               = Wrap(Number(DEFAULT_VARS(tokens[k + 1].name).value),
                      st.negation_stack)
          /\ st'.negation_stack = 0]_vars
  /\ []((input = <<"-", "e">> /\ pc = "done")
          => ast = Wrap(Number(E), 1))

\* Contextualization appends the operand of a group that is not the
\* argument of a function.
GroupStep ==
  /\ OperandStep
  /\ tokens[k + 1].type = "Parentheses"
  /\ st.func = <<>>

\* C14 as stated: a group that is not a function's argument and has n
\* Negation marks pending is appended as its parenthesised sub-expression
\* under n Negation layers, the layers outside the parentheses as for a
\* call, and the pending depth is reset; as the base of an exponent it is
\* treated like a negated number: `-(2)^2` evaluates to -4, as `-2^2` does.
C14_GroupNegation ==
  /\ [][GroupStep =>
          /\ st'.expressions[Len(st'.expressions)]
               = Wrap(Paren(ast_gen(tokens[k + 1].tokens).val), st.negation_stack)
          /\ st'.negation_stack = 0]_vars
  /\ []((input = NegatedGroup /\ pc = "done") => outcome = Ok(IntVal(0 - 4)))
  /\ []((input = Test18 /\ pc = "done") => outcome = Ok(IntVal(0 - 4)))

\* The loop over the tokens has ended with a function name pending.
PendingAtEnd ==
  /\ pc = "ctx"
  /\ k = Len(tokens)
  /\ st.func # <<>>

\* The input's last token is the name of a function.
EndsWithFunction ==
  /\ Lexed
  /\ tokens # <<>>
  /\ tokens[Len(tokens)].type = "Var"
  /\ tokens[Len(tokens)].name \in FunctionNames

\* C15 as stated: a function name that no group follows is a malformed
\* tail: when the loop over the tokens ends with a function name pending
\* the final length check fails with ParseError::UnexpectedEOF, and
\* eval_math returns no value for an input whose last token is a function
\* name, such as `2 + abs` or `2 abs`.
C15_DanglingFunction ==
  /\ [][PendingAtEnd => (pc' = "done" /\ error' = ParseEOF)]_vars
  /\ []((EndsWithFunction /\ pc = "done") => ~outcome.ok)

\* The pair that contextualization has returned, before into_ast starts.
Contextualized == pc = "reduce" /\ tier = 0

\* C16: the pair of expressions and operators that contextualization
\* returns has one expression more than it has operators, and a pair whose
\* lengths differ otherwise is refused with UnexpectedEOF by the final check
\* of the contextualizer; each fold takes one operator and one expression
\* away, so that the difference stays 1 during the reduction; into_ast on
\* such a pair folds every operator and succeeds with the one expression
\* that is left, no operator remaining; into_ast on a pair with one
\* expression less, or with one operator less, fails with UnexpectedEOF.
C16_LengthInvariant ==
  /\ [][(pc = "ctx" /\ k = Len(tokens))
          => IF Len(st.expressions) = Len(st.operators) + 1
               THEN pc' = "reduce" /\ ct' = [expressions |-> st.expressions,
                                            operators |-> st.operators]
               ELSE pc' = "done" /\ error' = ParseEOF]_vars
  /\ [](pc = "reduce" => Len(ct.expressions) = Len(ct.operators) + 1)
  /\ [][FoldStep =>
          /\ Len(ct'.operators) = Len(ct.operators) - 1
          /\ Len(ct'.expressions) = Len(ct.expressions) - 1]_vars
  /\ [][(pc = "reduce" /\ tier = 1 /\ instances = <<>>)
          => /\ ct.operators = <<>>
             /\ Len(ct.expressions) = 1
             /\ pc' = "eval"
             /\ ast' = ct.expressions[1]]_vars
  /\ [](Contextualized =>
          /\ into_ast(ct).ok
          /\ into_ast([ct EXCEPT !.expressions = Tail(@)]) = Err(ParseEOF)
          /\ ct.operators # <<>> =>
               into_ast([ct EXCEPT !.operators = Tail(@)]) = Err(ParseEOF))

\* C16, witness: the two operators of `3 + 3 ^ 2` have been folded and
\* into_ast has returned the one expression that was left.
C16_Witness ==
  /\ input = Test01
  /\ pc = "eval"
  /\ Len(st.expressions) = 3
  /\ st.operators = <<"Plus", "Exp">>
  /\ ct.operators = <<>>
  /\ ct.expressions = <<ast>>

\* The 1-based positions of the operators of tier t among ops.
TierPlaces(ops, t) == {j \in 1..Len(ops) : TierRank(ops[j]) = t}

\* The 0-based positions at which the operators of tier t are folded: the
\* one with i operators of the tier before it stands i places lower by then.
FoldPlaces(ops, t) ==
  [n \in 1..Cardinality(TierPlaces(ops, t)) |->
     LET j == CHOOSE j \in TierPlaces(ops, t) :
                Cardinality({x \in TierPlaces(ops, t) : x < j}) = n - 1
     IN (j - 1) - (n - 1)]

NumberStep ==
  /\ pc = "lex"
  /\ ind < Len(input)
  /\ pending_num.kind = "Number"

\* The character after the one being read can go on the number: a digit, or
\* a sign directly after the 'E'.
NumberGoesOn ==
  /\ ind + 1 < Len(input)
  /\ \/ is_digit(input[ind + 2])
     \/ input[ind + 1] = "E" /\ input[ind + 2] \in {"-", "+"}

\* C18: the segment index of a number never decreases: a '.' moves it from
\* the integer to the fraction segment, an 'E' from either to the exponent
\* segment, other characters leave it; a pending number reads a '.' only in
\* the integer segment, an 'E' only before the exponent segment and with a
\* digit in the current segment, a sign only as the first character of the
\* exponent segment; a Number token is made only when the number's last
\* character is a digit, so that its last segment holds one; a number that
\* stops after '.', 'E' or a sign fails with UnexpectedEOF at the end of the
\* input and with UnexpectedCharacter for the next character otherwise.
\* `3.`, `3E` and `3E-` fail with UnexpectedEOF, `3.E3` with 'E' at 2.
C18_NumberSyntax ==
  /\ [](NumberStep =>
          LET c == input[ind + 1]
              part == pending_num.parts[pending_num.ind + 1]
          IN /\ c \in Digits \cup {".", "E", "-", "+"}
             /\ c = "." => pending_num.ind = 0
             /\ c = "E" => (pending_num.ind < 2
                            /\ \E i \in 1..Len(part) : is_digit(part[i]))
             /\ c \in {"-", "+"} => (pending_num.ind = 2 /\ part = <<>>))
  /\ [][(NumberStep /\ ind' = ind + 1 /\ pending_num'.kind = "Number")
          => pending_num'.ind =
               IF input[ind + 1] = "." THEN 1
               ELSE IF input[ind + 1] = "E" THEN 2
               ELSE pending_num.ind]_vars
  /\ [][(pc = "lex" /\ Len(tokens') = Len(tokens) + 1
           /\ tokens'[Len(tokens')].type = "Number")
          => is_digit(input[ind + 1])]_vars
  /\ [][(NumberStep /\ input[ind + 1] \in {".", "E", "-", "+"})
          => IF NumberGoesOn
               THEN ind' = ind + 1 /\ pending_num'.kind = "Number" /\ tokens' = tokens
               ELSE /\ pc' = "done"
                    /\ error' = IF ind + 1 = Len(input)
                                  THEN UnexpectedEOF
                                  ELSE UnexpectedCharacter(input[ind + 2], ind + 1)]_vars
  /\ []((pc = "done" /\ input \in {<<"3", ".">>, <<"3", "E">>, <<"3", "E", "-">>})
          => error = UnexpectedEOF)
  /\ []((pc = "done" /\ input = <<"3", ".", "E", "3">>)
          => error = UnexpectedCharacter("E", 2))

\* C18, witness: `3.3E-` has been read through its three segments and has
\* failed at its end, the exponent holding the sign alone.
C18_Witness ==
  /\ input = <<"3", ".", "3", "E", "-">>
  /\ pc = "done"
  /\ ind = 4
  /\ pending_num.kind = "Number"
  /\ pending_num.ind = 2
  /\ pending_num.parts = <<<<"3">>, <<"3">>, <<>>>>
  /\ error = UnexpectedEOF

\* The lexer reads the ')' that closes the pending top-level group.
ClosingStep ==
  /\ pc = "lex"
  /\ ind < Len(input)
  /\ pending_num.kind = "Parentheses"
  /\ pending_num.level = 1
  /\ input[ind + 1] = ")"

\* The text between the '(' at p and its ')' at q fails to lex with
\* UnexpectedEOF.
FailsInside(p, q) ==
  /\ Matches(input, p, q)
  /\ LET r == lex(SubSeq(input, p + 1, q - 1))
     IN ~r.ok /\ is_eof(r.err)

\* C19 as stated: when the text inside a closed pair of parentheses fails
\* its own lex with UnexpectedEOF, the failure is reported as
\* UnexpectedCharacter with ')' and the offset of that group's closing ')'
\* in the top-level input, at every depth of nesting; any other error of
\* the inner lex is returned as it is.  `(2+)` fails with ')' at 3.
C19_InnerEndOfInput ==
  /\ [][(ClosingStep /\ pending_num.inner # <<>>)
          => LET r == lex_ind(pending_num.inner, pending_num.start)
             IN IF r.ok
                  THEN tokens' = Append(tokens, TParentheses(r.val))
                  ELSE /\ pc' = "done"
                       /\ error' = IF is_eof(r.err)
                                     THEN UnexpectedCharacter(")", ind)
                                     ELSE r.err]_vars
  /\ []((pc = "done" /\ error.kind = "UnexpectedCharacter" /\ error.character = ")"
           /\ pending_num.kind = "Parentheses"
           /\ \E p, q \in (pending_num.start + 1)..(ind + 1) : FailsInside(p, q))
          => \E p, q \in (pending_num.start + 1)..(ind + 1) :
               FailsInside(p, q) /\ error.position = q - 1)
  /\ []((input = <<"(", "2", "+", ")">> /\ pc = "done")
          => error = UnexpectedCharacter(")", 3))

\* The names that the call nodes of the tree e apply.
RECURSIVE CalledNames(_)
CalledNames(e) ==
  IF e.type = "Binary" THEN CalledNames(e.left) \cup CalledNames(e.right)
  ELSE IF e.type = "CallExpresion" THEN {e.func} \cup CalledNames(e.arg)
  ELSE IF e.type \in {"Paren", "Negation"} THEN CalledNames(e.inner)
  ELSE {}

\* C20: every tree ast_gen returns applies only names bound to functions,
\* and get_value on it returns a value; eval_math never fails with
\* NonFunction; an identifier that is bound to nothing fails with
\* UndefinedIdent when contextualization reads it, at top level or in a
\* group, before any tree exists.
C20_EvaluationSucceeds ==
  /\ [](ast # NoAst => CalledNames(ast) \subseteq FunctionNames)
  /\ [][pc = "eval" => (pc' = "done" /\ outcome'.ok /\ error' = NoError)]_vars
  /\ [](error.kind # "NonFunction")
  /\ [][(pc = "ctx" /\ k < Len(tokens) /\ tokens[k + 1].type = "Var"
           /\ st.func = <<>>
           /\ tokens[k + 1].name \notin ConstantNames \cup FunctionNames)
          => (pc' = "done" /\ error' = UndefinedIdent(tokens[k + 1].name))]_vars
  /\ []((error.from = "ParseError" /\ error.kind = "UndefinedIdent")
          => /\ ast = NoAst
             /\ k < Len(tokens)
             /\ tokens[k + 1].type \in {"Var", "Parentheses"}
             /\ error.arg \notin ConstantNames \cup FunctionNames)

\* C20, witness: `3*--abs(-2)` has been evaluated, its tree applying abs.
C20_Witness ==
  /\ input = Test22
  /\ pc = "done"
  /\ CalledNames(ast) = {Str_abs}
  /\ outcome = Ok(IntVal(6))

\* ---------------------------------------------------------------------------
\* C21: the state of the window across an evaluation.

\* What eval_math makes of the entry as it stands.
Solution == eval_math(state.textarea, state.angle_mode)

\* A step of the '=' button or of the Return key.
EvaluationStep == Click(Special("Evaluate")) \/ Key("Return")

\* C21: after any clicks and key presses, an evaluation (the '=' button or
\* the Return key) that fails changes only the error label, which takes the
\* message: the entry text, prev_ans, clear_next and the angle mode are as
\* before. A step of any handler that changes prev_ans or raises clear_next
\* is an evaluation that succeeds, and it stores the rounded solution in
\* prev_ans, shows it in the entry and leaves clear_next true.
C21_FailedEvaluation ==
  [][/\ (EvaluationStep /\ ~Solution.ok) =>
          /\ state'.textarea = state.textarea
          /\ state'.prev_ans = state.prev_ans
          /\ state'.clear_next = state.clear_next
          /\ state'.angle_mode = state.angle_mode
          /\ state'.inverted = state.inverted
          /\ state'.err_label = Solution.err
     /\ (\/ state'.prev_ans # state.prev_ans
         \/ (state'.clear_next /\ ~state.clear_next)) =>
          /\ EvaluationStep
          /\ Solution.ok
          /\ state'.prev_ans = SomeAns(to_fixed(Solution.val, 7))
          /\ state'.textarea = format_ans(to_fixed(Solution.val, 7))
          /\ state'.clear_next]_vars

\* An evaluation in degree mode has just failed on an entry typed after an
\* earlier answer: the message is shown, the answer is still stored and
\* clear_next is still false.
C21_Witness ==
  /\ state.textarea # <<>>
  /\ ~Solution.ok
  /\ state.err_label = Solution.err
  /\ state.err_label # <<>>
  /\ state.prev_ans.some
  /\ ~state.clear_next
  /\ state.angle_mode = "Deg"

====
